---- MODULE Spec2Model ----
(***************************************************************************)
(* The useMessages hook (src/frontend/src/components/Chat/ChatEmpty.jsx,   *)
(* lines 64-856) and its caller ChatHistory.handleScroll, as a state       *)
(* machine.  One action per handler, event callback, promise continuation  *)
(* or timer; the React effects of the hook are the action RunEffects.      *)
(***************************************************************************)
EXTENDS Integers, Sequences, FiniteSets, Bags, TLC

\* ---------------------------------------------------------------- bounds
MaxCalls    == 2    \* calls and events of the user interface in a run
MaxSends    == 1    \* sendMessage calls among them
MaxClock    == 1    \* readings of Date.now(): 0..MaxClock
MaxMock     == 1    \* history requests that fail (mock fallback pages)
Skew        == 1    \* how far the server clock may be ahead of Date.now()

\* ------------------------------------------------------- program constants
limit       == 2          \* option limit (page size); 30 by default
MinuteMs    == 60000      \* 60 * 1000 in the mock timestamps

\* ------------------------------------------------------------ vocabulary
Chats  == {"A", "B"}
NoChat == "null"
Null   == [k |-> "null", n |-> 0, s |-> 0]     \* null id (cursor unset)
NoMsg  == [id |-> Null]                        \* serverMessage = null
NoSocket == [chat |-> NoChat, st |-> "none"]   \* socketRef.current = null

Id(k, n, s) == [k |-> k, n |-> n, s |-> s]

Msg(id, chat, content, ts, status, sender, origin) ==
  [id |-> id, chatId |-> chat, content |-> content, timestamp |-> ts,
   status |-> status, sender |-> sender, origin |-> origin]

Me   == "me"     \* user.id
Peer == "101"    \* another participant

\* Messages the server holds for a conversation when the run starts.  The
\* two of A carry the same timestamp, of a server clock ahead of Date.now().
Hist(c) ==
  IF c = "A"
  THEN { Msg(Id("hA", 1, 0), "A", "x", 1, "none", Me, 0),
         Msg(Id("hA", 2, 0), "A", "x", 1, "none", Peer, 0) }
  ELSE { Msg(Id("hB", 1, 0), "B", "x", 1, "none", Peer, 0) }

\* ------------------------------------------------------------- sequences
Ids(s) == { s[i].id : i \in DOMAIN s }

RECURSIVE SelectMsgs(_, _)
\* Array.prototype.filter(msg => msg.id !== id)
SelectMsgs(s, id) ==
  IF s = <<>> THEN <<>>
  ELSE IF Head(s).id = id THEN SelectMsgs(Tail(s), id)
       ELSE <<Head(s)>> \o SelectMsgs(Tail(s), id)

\* insert x behind every element whose timestamp is not later than x's
InsertByTs(s, x) ==
  LET later == { i \in DOMAIN s : s[i].timestamp > x.timestamp }
      k == IF later = {} THEN Len(s) + 1
           ELSE CHOOSE i \in later : \A j \in later : i <= j
  IN  SubSeq(s, 1, k - 1) \o <<x>> \o SubSeq(s, k, Len(s))

RECURSIVE SortByTs(_)
\* Array.prototype.sort((a, b) => new Date(a.timestamp) - new Date(b.timestamp)),
\* a stable sort
SortByTs(s) ==
  IF s = <<>> THEN <<>>
  ELSE InsertByTs(SortByTs(SubSeq(s, 1, Len(s) - 1)), s[Len(s)])

\* prev.map(msg => msg.id === id ? f(msg) : msg), f a function on the
\* entries of prev
Entries(s) == { s[i] : i \in DOMAIN s }

MapId(s, id, f) == [i \in DOMAIN s |-> IF s[i].id = id THEN f[s[i]] ELSE s[i]]

\* new Map() filled by allMessages.forEach(msg => messageMap.set(msg.id, msg)),
\* then Array.from(messageMap.values()): a key keeps the place of its first
\* occurrence and the value of its last one.
MapDedup(s) ==
  LET first == { i \in DOMAIN s : \A j \in 1..(i - 1) : s[j].id # s[i].id }
      lastOf(i) == CHOOSE j \in DOMAIN s :
                     /\ s[j].id = s[i].id
                     /\ \A l \in DOMAIN s : s[l].id = s[i].id => l <= j
      RECURSIVE Walk(_)
      Walk(i) == IF i > Len(s) THEN <<>>
                 ELSE IF i \in first THEN <<s[lastOf(i)]>> \o Walk(i + 1)
                      ELSE Walk(i + 1)
  IN  Walk(1)

\* a set of messages as the array a response carries (ordered by id)
IdLess(a, b) ==
  \/ a.k # b.k /\ a.k \in {"hA", "hB"}
  \/ a.k = b.k /\ (a.n < b.n \/ (a.n = b.n /\ a.s < b.s))

RECURSIVE SeqOf(_)
SeqOf(S) ==
  IF S = {} THEN <<>>
  ELSE LET m == CHOOSE x \in S : \A y \in S \ {x} : IdLess(x.id, y.id)
       IN  <<m>> \o SeqOf(S \ {m})


\* ----------------------------------------------------------------- state
VARIABLES
  chatId,            \* the chatId option of the hook (the active conversation)
  chatIdRef,         \* chatIdRef.current
  messages,          \* the message list
  loading, error, hasMore, oldestMessageId,
  socketRef,         \* socketRef.current: the transport session and its state
  socketConnected,   \* the socketConnected state of the hook
  fallback,          \* the fallbackTimeout of initializeSocket
  socketDeps,        \* dependencies seen by the last run of the connect effect
  sessions,          \* transport sessions opened by io() and not disconnected
  loadDeps,          \* dependencies seen by the last run of the load effect
  loads,             \* history requests in flight (a bag)
  sends,             \* sendMessage calls awaiting their POST
  retries,           \* retryMessage calls awaiting their POST
  deletes,           \* deleteMessage calls awaiting their DELETE
  timers,            \* delayed-response timers set by sendMessage
  returned,          \* what the completed deleteMessage calls returned
  serverLog,         \* messages the server created from POSTs of this run
  now,               \* Date.now()
  isDevelopment,     \* window.location.hostname === 'localhost'
  isLoadingMore,     \* ChatHistory state
  isTyping,          \* the isTyping state of the hook
  connectedUsers,    \* the connectedUsers state of the hook (user ids)
  typingTimeoutRef,  \* typingTimeoutRef.current: the last handle of setTimeout
  typingTimers,      \* stop-typing timers set and neither fired nor cleared
  emitted,           \* commands emitted on the transport (socket.emit)
  calls, sent, mocks   \* counters of the bounds

listVars   == <<messages, loading, error, hasMore, oldestMessageId>>
socketVars == <<socketRef, socketConnected, fallback, socketDeps, sessions>>
opVars     == <<loads, sends, retries, deletes, timers, returned, serverLog>>
presenceVars == <<isTyping, connectedUsers>>
typingVars == <<typingTimeoutRef, typingTimers>>
envVars    == <<now, isDevelopment, isLoadingMore, presenceVars, typingVars,
               emitted>>
countVars  == <<calls, sent, mocks>>
vars == <<chatId, chatIdRef, listVars, socketVars, loadDeps, opVars, envVars,
          countVars>>

NoTimer == [armed |-> FALSE, sc |-> FALSE]

\* The hook as mounted for conversation A (useState and useRef initial
\* values), before the effects of the first render have run.
Init ==
  /\ chatId = "A" /\ chatIdRef = "A"
  /\ messages = <<>> /\ loading = FALSE /\ error = "null"
  /\ hasMore = TRUE /\ oldestMessageId = Null
  /\ socketRef = NoSocket /\ socketConnected = FALSE /\ fallback = NoTimer
  /\ socketDeps = <<NoChat, FALSE>> /\ loadDeps = <<NoChat, Null>>
  /\ sessions = 0
  /\ loads = EmptyBag /\ sends = {} /\ retries = {} /\ deletes = {}
  /\ timers = {} /\ returned = {} /\ serverLog = {}
  /\ now = 0 /\ isDevelopment \in BOOLEAN /\ isLoadingMore = FALSE
  /\ isTyping = FALSE /\ connectedUsers = {}
  /\ typingTimeoutRef = 0 /\ typingTimers = {} /\ emitted = {}
  /\ calls = 0 /\ sent = 0 /\ mocks = 0

\* ---------------------------------------------------------------- effects
\* A useEffect runs again after a render in which one of its dependencies
\* differs from the render before.  initializeSocket changes with
\* socketConnected (line 241), loadMessages with oldestMessageId (line 385).
SocketEffectDue == socketDeps # <<chatId, socketConnected>>
LoadEffectDue   == loadDeps # <<chatId, oldestMessageId>>
EffectsDue      == SocketEffectDue \/ LoadEffectDue \/ chatIdRef # chatId

\* The effects of the first render with the conversation have run: the user
\* of the hook calls its operations from then on.
Mounted == chatId # NoChat /\ socketDeps[1] = chatId

\* a request that never carries the cursor
LoadRequestNoCursor(reset) ==
  [chat |-> chatId, reset |-> reset, before |-> Null]

\* a request that carries the cursor whenever it is set
LoadRequestWithCursor(reset) ==
  [chat |-> chatId, reset |-> reset, before |-> oldestMessageId]

\* loadMessages(reset) up to its fetch: the request it issues
LoadRequest(reset) ==
  [chat |-> chatId, reset |-> reset,
   before |-> IF oldestMessageId # Null /\ ~reset THEN oldestMessageId ELSE Null]

\* socketRef.current, the socketConnected state and the open sessions
SessionState ==
  [ref |-> socketRef, flag |-> socketConnected, open |-> sessions]

\* lines 128-131: io(...) and socketRef.current = socket
OpenSocket(s) ==
  [s EXCEPT !.ref = [chat |-> chatId, st |-> "connecting"], !.open = s.open + 1]

\* initializeSocket without its guard on socketRef.current
InitializeSocketAgain(s) == OpenSocket(s)

\* initializeSocket: nothing without a conversation or with a session
InitializeSocket(s) ==
  IF chatId = NoChat \/ s.ref # NoSocket THEN s ELSE OpenSocket(s)

\* disconnectSocket: socket.disconnect(), the ref and the flag
DisconnectSocket(s) ==
  IF s.ref # NoSocket
  THEN [ref |-> NoSocket, flag |-> FALSE, open |-> s.open - 1]
  ELSE s

\* cleanup of the connect effect: cleanup(); disconnectSocket(); and then
\* its body: initializeSocket() or disconnectSocket()
ConnectEffect ==
  LET closed == DisconnectSocket(SessionState)
      after  == IF chatId # NoChat THEN InitializeSocket(closed)
                ELSE DisconnectSocket(closed)
  IN  /\ socketDeps' = <<chatId, socketConnected>>
      /\ socketRef' = after.ref
      /\ socketConnected' = after.flag
      /\ sessions' = after.open
      /\ fallback' = IF after.open > closed.open
                     THEN [armed |-> TRUE, sc |-> socketConnected] ELSE NoTimer

\* body of the load effect: loadMessages(true), or the reset of the state
LoadEffect ==
  /\ loadDeps' = <<chatId, oldestMessageId>>
  /\ IF chatId # NoChat
     THEN /\ loads' = loads (+) SetToBag({LoadRequest(TRUE)})
          /\ loading' = TRUE /\ error' = "null"
          /\ UNCHANGED <<messages, hasMore, oldestMessageId>>
     ELSE /\ messages' = <<>> /\ hasMore' = TRUE /\ oldestMessageId' = Null
          /\ UNCHANGED <<loads, loading, error>>

\* clearTimeout(typingTimeoutRef.current) on the timers ts
ClearTypingTimeout(ts) == { t \in ts : t.id # typingTimeoutRef }

\* cleanup of the load effect (lines 797-801), run before its body
LoadCleanup(ts) == IF typingTimeoutRef # 0 THEN ClearTypingTimeout(ts) ELSE ts

EffectStep ==
  /\ chatIdRef' = chatId
  /\ IF SocketEffectDue THEN ConnectEffect ELSE UNCHANGED socketVars
  /\ IF LoadEffectDue
     THEN LoadEffect /\ typingTimers' = LoadCleanup(typingTimers)
     ELSE UNCHANGED <<listVars, loadDeps, loads, typingTimers>>
  /\ UNCHANGED <<chatId, sends, retries, deletes, timers, returned, serverLog,
                 now, isDevelopment, isLoadingMore, presenceVars,
                 typingTimeoutRef, emitted, countVars>>

RunEffects == EffectsDue /\ EffectStep

\* the chatId option changes (a conversation is selected or deselected)
SelectChat(c) ==
  /\ ~EffectsDue /\ calls < MaxCalls /\ c # chatId
  /\ chatId' = c /\ calls' = calls + 1
  /\ UNCHANGED <<chatIdRef, listVars, socketVars, loadDeps, opVars, envVars,
                 sent, mocks>>

\* --------------------------------------------------------------- transport
\* socket.on('connect')
SocketConnect ==
  /\ ~EffectsDue /\ socketRef.st = "connecting"
  /\ socketRef' = [socketRef EXCEPT !.st = "connected"]
  /\ socketConnected' = TRUE
  /\ UNCHANGED <<chatId, chatIdRef, listVars, fallback, socketDeps, sessions,
                 loadDeps, opVars, envVars, countVars>>

\* socket.on('disconnect') and socket.on('error').  The render it causes
\* is preceded by the effects still due from the render before.
SocketDrop ==
  /\ socketRef.st = "connected"
  /\ IF EffectsDue
     THEN EffectStep
     ELSE /\ socketRef' = [socketRef EXCEPT !.st = "connecting"]
          /\ socketConnected' = FALSE
          /\ UNCHANGED <<chatId, chatIdRef, listVars, fallback, socketDeps,
                         sessions, loadDeps, opVars, envVars, countVars>>

\* the fallbackTimeout callback, 3 s after initializeSocket
FallbackFire ==
  /\ ~EffectsDue /\ fallback.armed
  /\ fallback' = NoTimer
  /\ socketConnected' = IF fallback.sc THEN socketConnected ELSE TRUE
  /\ connectedUsers' = IF fallback.sc THEN connectedUsers ELSE {Peer, Me}
  /\ UNCHANGED <<chatId, chatIdRef, listVars, socketRef, socketDeps, sessions,
                 loadDeps, opVars, now, isDevelopment, typingVars, emitted,
                 isLoadingMore, isTyping,
                 countVars>>


\* ------------------------------------------------------------ history loads
\* loadMessages(reset) called by the user of the hook (loadMoreMessages is
\* called by handleScroll alone)
LoadMessages(reset) ==
  /\ Mounted /\ calls < MaxCalls
  /\ loads' = loads (+) SetToBag({LoadRequest(reset)})
  /\ loading' = TRUE /\ error' = "null"
  /\ calls' = calls + 1
  /\ UNCHANGED <<chatId, chatIdRef, messages, hasMore, oldestMessageId,
                 socketVars, loadDeps, sends, retries, deletes, timers,
                 returned, serverLog, envVars, sent, mocks>>

\* ChatHistory.handleScroll with container.scrollTop < 50: onLoadMore is
\* loadMoreMessages, that is loadMessages(false); it returns no promise, so
\* the await ends at once and the 100 ms timer that lowers isLoadingMore is
\* set.
HandleScroll ==
  /\ Mounted /\ ~isLoadingMore /\ hasMore /\ calls < MaxCalls
  /\ isLoadingMore' = TRUE /\ calls' = calls + 1
  /\ loads' = loads (+) SetToBag({LoadRequest(FALSE)})
  /\ loading' = TRUE /\ error' = "null"
  /\ UNCHANGED <<chatId, chatIdRef, messages, hasMore, oldestMessageId,
                 socketVars, loadDeps, sends, retries, deletes, timers,
                 returned, serverLog, now, isDevelopment, typingVars, emitted,
                 presenceVars,
                 sent, mocks>>

\* the 100 ms timer of handleScroll
ScrollRestore ==
  /\ isLoadingMore /\ isLoadingMore' = FALSE
  /\ UNCHANGED <<chatId, chatIdRef, listVars, socketVars, loadDeps, opVars,
                 now, isDevelopment, typingVars, emitted, presenceVars, countVars>>

\* What the server holds for a conversation, and its answer to
\* GET /api/chats/:id/messages?limit&before: the newest limit messages of the
\* conversation, older than the cursor when there is one (none when the
\* cursor is no id of the server).
ServerHolds(c) == Hist(c) \cup { m \in serverLog : m.chatId = c }

Newer(a, b) ==
  \/ a.timestamp > b.timestamp
  \/ a.timestamp = b.timestamp /\ IdLess(b.id, a.id)

Page(l) ==
  LET all == ServerHolds(l.chat)
      cur == { m \in all : m.id = l.before }
      ok  == IF l.before = Null THEN all
             ELSE { m \in all : \E c \in cur : m.timestamp < c.timestamp }
  IN  { m \in ok : Cardinality({ x \in ok : Newer(x, m) }) < limit }

\* the mock page of the fallback (lines 297-339)
MockPage(c, reset, t) ==
  LET mid(i) == IF reset THEN Id("m", 100 + i, 0) ELSE Id("m", t, i)
      mts(i) == t - (IF reset THEN 30 ELSE 60) * MinuteMs
                  + (IF i = 5 THEN 10 ELSE i - 1) * MinuteMs
  IN  [i \in 1..5 |->
         Msg(mid(i), c, "mock", mts(i), "none", IF i \in {2, 4} THEN Me ELSE Peer, 0)]

\* lines 354-372: the merge of a fetched page into the list
MergePage(fetched, prev) == SortByTs(MapDedup(fetched \o prev))

\* lines 342-377: sort, cursor, list, hasMore; and the finally clause
StorePage(l, page) ==
  LET fetched == SortByTs(page)
      oldest  == IF fetched = <<>> THEN Null ELSE fetched[1].id
  IN  /\ messages' = IF l.reset THEN fetched ELSE MergePage(fetched, messages)
      /\ oldestMessageId' = oldest
      /\ hasMore' = (Len(fetched) >= limit)
      /\ loading' = FALSE
      /\ loads' = loads (-) SetToBag({l})
      /\ UNCHANGED <<chatId, chatIdRef, error, socketVars, loadDeps, sends,
                     retries, deletes, timers, returned, serverLog, envVars,
                     calls, sent>>

\* the fetch of a loadMessages call resolves with response.ok
LoadOk(l) ==
  /\ ~EffectsDue /\ BagIn(l, loads)
  /\ StorePage(l, SeqOf(Page(l)))
  /\ UNCHANGED mocks

\* the fetch rejects or is not ok: the mock page, 500 ms later
LoadMock(l) ==
  /\ ~EffectsDue /\ BagIn(l, loads) /\ mocks < MaxMock
  /\ StorePage(l, MockPage(l.chat, l.reset, now))
  /\ mocks' = mocks + 1


\* ------------------------------------------------------------ send pipeline
\* socketRef.current && socketConnected
SocketUsable == socketRef # NoSocket /\ socketConnected

\* prev.map(msg => msg.id === id ? { ...msg, status } : msg)
WithStatus(prev, id, status) ==
  MapId(prev, id, [m \in Entries(prev) |-> [m EXCEPT !.status = status]])

\* lines 471-477: { ...(serverMessage || msg), status: 'sent' } at messageId
MarkSent(prev, id, serverMessage) ==
  MapId(prev, id, [m \in Entries(prev) |->
    [(IF serverMessage # NoMsg THEN serverMessage ELSE m) EXCEPT !.status = "sent"]])

\* sendMessage(content) up to the await of its POST: the optimistic entry
\* and the emit on the transport; in a run of at most maxSends sends among
\* maxCalls calls
SendMessageWithin(maxSends, maxCalls) ==
  /\ Mounted /\ sent < maxSends /\ calls < maxCalls
  /\ LET messageId  == Id("m", now, 0)
         newMessage == Msg(messageId, chatId, "hi", now, "sending", Me, sent + 1)
     IN  /\ messages' = Append(messages, newMessage)
         /\ sends' = sends \cup
              { [n |-> sent + 1, chat |-> chatId, id |-> messageId,
                 content |-> "hi", sentViaSocket |-> SocketUsable,
                 socketConnected |-> socketConnected, serverMessage |-> NoMsg,
                 live |-> (socketRef.st = "connected")] }
  /\ sent' = sent + 1 /\ calls' = calls + 1
  /\ UNCHANGED <<chatId, chatIdRef, loading, error, hasMore, oldestMessageId,
                 socketVars, loadDeps, loads, retries, deletes, timers,
                 returned, serverLog, envVars, mocks>>

SendMessage == SendMessageWithin(MaxSends, MaxCalls)

\* The server stores the message of a send (attempt 0) or of a retry
\* (attempt: the number of the retryMessage call) under an id and a
\* timestamp of its own.
ServerMessage(op, attempt, ts) ==
  Msg(Id("srv", op.n, attempt), op.chat, op.content, ts, "none", Me, op.n)

ServerAcceptSend(op, ts) ==
  /\ op \in sends /\ op.serverMessage = NoMsg /\ ts \in now..(now + Skew)
  /\ LET m == ServerMessage(op, 0, ts)
     IN  /\ sends' = (sends \ {op}) \cup {[op EXCEPT !.serverMessage = m]}
         /\ serverLog' = serverLog \cup {m}
  /\ UNCHANGED <<chatId, chatIdRef, listVars, socketVars, loadDeps, loads,
                 retries, deletes, timers, returned, envVars, countVars>>

\* lines 479-495: the delayed response of development mode
ResponseTimers(op) ==
  IF isDevelopment /\ op.socketConnected
  THEN timers \cup {[n |-> op.n, chat |-> op.chat]} ELSE timers

\* the POST of sendMessage resolves with response.ok
SendOk(op) ==
  /\ op \in sends /\ op.serverMessage # NoMsg
  /\ messages' = MarkSent(messages, op.id, op.serverMessage)
  /\ sends' = sends \ {op}
  /\ timers' = ResponseTimers(op)
  /\ UNCHANGED <<chatId, chatIdRef, loading, error, hasMore, oldestMessageId,
                 socketVars, loadDeps, loads, retries, deletes, returned,
                 serverLog, envVars, countVars>>

\* the POST rejects or is not ok (lines 454-468, 498-510)
SendFail(op) ==
  /\ op \in sends
  /\ sends' = sends \ {op}
  /\ IF op.sentViaSocket \/ isDevelopment
     THEN /\ messages' = MarkSent(messages, op.id, NoMsg)
          /\ timers' = ResponseTimers(op)
          /\ UNCHANGED error
     ELSE /\ messages' = WithStatus(messages, op.id, "failed")
          /\ error' = "send"
          /\ UNCHANGED timers
  /\ UNCHANGED <<chatId, chatIdRef, loading, hasMore, oldestMessageId,
                 socketVars, loadDeps, loads, retries, deletes, returned,
                 serverLog, envVars, countVars>>

\* the callback of the delayed-response timer (lines 481-494)
ResponseTimer(t) ==
  /\ t \in timers /\ timers' = timers \ {t}
  /\ messages' = Append(messages,
       Msg(Id("response", now, 0), t.chat, "re", now + 2000, "sent", Peer, 0))
  /\ UNCHANGED <<chatId, chatIdRef, loading, error, hasMore, oldestMessageId,
                 socketVars, loadDeps, loads, sends, retries, deletes,
                 returned, serverLog, envVars, countVars>>

\* retryMessage without the status test of its find: the first entry under
\* the id, whatever its status
AnyMessage(id) ==
  LET hit == { i \in DOMAIN messages : messages[i].id = id }
  IN  IF hit = {} THEN NoMsg
      ELSE messages[CHOOSE i \in hit : \A j \in hit : i <= j]

\* messages.find(msg => msg.id === id && msg.status === 'failed')
FailedMessage(id) ==
  LET hit == { i \in DOMAIN messages :
                 messages[i].id = id /\ messages[i].status = "failed" }
  IN  IF hit = {} THEN NoMsg
      ELSE messages[CHOOSE i \in hit : \A j \in hit : i <= j]

\* retryMessage(id) up to the await of its POST
RetryMessageWithin(id, maxCalls) ==
  /\ Mounted /\ calls < maxCalls
  /\ FailedMessage(id) # NoMsg
  /\ messages' = WithStatus(messages, id, "sending")
  /\ retries' = retries \cup
       { [n |-> FailedMessage(id).origin, chat |-> chatId, id |-> id,
          content |-> FailedMessage(id).content, success |-> SocketUsable,
          accepted |-> FALSE, attempt |-> calls + 1] }
  /\ calls' = calls + 1
  /\ UNCHANGED <<chatId, chatIdRef, loading, error, hasMore, oldestMessageId,
                 socketVars, loadDeps, loads, sends, deletes, timers, returned,
                 serverLog, envVars, sent, mocks>>

RetryMessage(id) == RetryMessageWithin(id, MaxCalls)

ServerAcceptRetry(op, ts) ==
  /\ op \in retries /\ ~op.accepted /\ ts \in now..(now + Skew)
  /\ retries' = (retries \ {op}) \cup {[op EXCEPT !.accepted = TRUE]}
  /\ serverLog' = serverLog \cup {ServerMessage(op, op.attempt, ts)}
  /\ UNCHANGED <<chatId, chatIdRef, listVars, socketVars, loadDeps, loads,
                 sends, deletes, timers, returned, envVars, countVars>>

\* the POST of retryMessage resolves with response.ok (lines 564-586)
RetryOk(op) ==
  /\ op \in retries /\ op.accepted
  /\ retries' = retries \ {op}
  /\ messages' = WithStatus(messages, op.id, "sent")
  /\ UNCHANGED <<chatId, chatIdRef, loading, error, hasMore, oldestMessageId,
                 socketVars, loadDeps, loads, sends, deletes, timers, returned,
                 serverLog, envVars, countVars>>

\* the POST rejects or is not ok (lines 569-602)
RetryFail(op) ==
  /\ op \in retries
  /\ retries' = retries \ {op}
  /\ IF op.success \/ isDevelopment
     THEN /\ messages' = WithStatus(messages, op.id, "sent")
          /\ UNCHANGED error
     ELSE /\ messages' = WithStatus(messages, op.id, "failed")
          /\ error' = "send"
  /\ UNCHANGED <<chatId, chatIdRef, loading, hasMore, oldestMessageId,
                 socketVars, loadDeps, loads, sends, deletes, timers, returned,
                 serverLog, envVars, countVars>>

\* deleteMessage(id) up to the await of its DELETE (lines 610-641)
DeleteMessage(id) ==
  /\ Mounted /\ calls < MaxCalls /\ id \in Ids(messages)
  /\ messages' = SelectMsgs(messages, id)
  /\ deletes' = deletes \cup
       {[chat |-> chatId, id |-> id, deleted |-> SocketUsable]}
  /\ calls' = calls + 1
  /\ UNCHANGED <<chatId, chatIdRef, loading, error, hasMore, oldestMessageId,
                 socketVars, loadDeps, loads, sends, retries, timers, returned,
                 serverLog, envVars, sent, mocks>>

\* deleteMessage as the comment of its catch block has it ("Restore the
\* message", lines 659-666): a delete whose two paths failed reloads the list
DeleteDoneReloads(op, ok) ==
  /\ op \in deletes /\ ok \in BOOLEAN
  /\ deletes' = deletes \ {op}
  /\ returned' = returned \cup
       {[id |-> op.id, chat |-> op.chat,
         value |-> (ok \/ op.deleted \/ isDevelopment),
         failed |-> (~ok /\ ~op.deleted)]}
  /\ IF ~ok /\ ~op.deleted /\ chatId # NoChat
     THEN /\ loads' = loads (+) SetToBag({LoadRequest(TRUE)})
          /\ loading' = TRUE /\ error' = "null"
     ELSE UNCHANGED <<loads, loading, error>>
  /\ UNCHANGED <<chatId, chatIdRef, messages, hasMore, oldestMessageId,
                 socketVars, loadDeps, sends, retries, timers, serverLog,
                 envVars, countVars>>

\* the DELETE resolves: ok, or not (lines 643-658); the value returned
DeleteDone(op, ok) ==
  /\ op \in deletes /\ ok \in BOOLEAN
  /\ deletes' = deletes \ {op}
  /\ returned' = returned \cup
       {[id |-> op.id, chat |-> op.chat,
         value |-> (ok \/ op.deleted \/ isDevelopment),
         failed |-> (~ok /\ ~op.deleted)]}
  /\ UNCHANGED <<chatId, chatIdRef, listVars, socketVars, loadDeps, loads,
                 sends, retries, timers, serverLog, envVars, countVars>>


\* --------------------------------------------------------- transport events
\* The messages the server's events are about: the newest message of the peer
\* in A and the messages the server created from POSTs of this run.  An event
\* may be delivered more than once.
Pushable == { m \in Hist("A") : m.id.n = 2 } \cup serverLog

\* lines 153-165: the updater of the newMessage handler
OnNewMessage(prev, newMessage) ==
  IF \E i \in DOMAIN prev : prev[i].id = newMessage.id
  THEN prev
  ELSE SortByTs(Append(prev, newMessage))

\* a command of socket.emit: its event name and its payload
Command(cmd, chat, ids) == [cmd |-> cmd, chatId |-> chat, messageIds |-> ids]

\* the handler without its test of the author
ReceiptsForAll(newMessage) ==
  {Command("markAsRead", chatIdRef, <<newMessage.id>>)}

\* lines 167-173: the commands the newMessage handler emits for an event of
\* the conversation of chatIdRef.current
ReadReceipts(newMessage) ==
  IF newMessage.sender # Me
  THEN {Command("markAsRead", chatIdRef, <<newMessage.id>>)}
  ELSE {}

\* socket.on('newMessage')
NewMessage(m) ==
  /\ socketRef.st = "connected" /\ m \in Pushable
  /\ messages' = IF m.chatId = chatIdRef THEN OnNewMessage(messages, m)
                 ELSE messages
  /\ emitted' = IF m.chatId = chatIdRef THEN emitted \cup ReadReceipts(m)
                ELSE emitted
  /\ UNCHANGED <<chatId, chatIdRef, loading, error, hasMore, oldestMessageId,
                 socketVars, loadDeps, opVars, now, isDevelopment,
                 isLoadingMore, presenceVars, typingVars, countVars>>

\* socket.on('messageUpdated'): the peer's message with its content edited
MessageUpdated(m) ==
  /\ socketRef.st = "connected" /\ m \in Pushable \ serverLog
  /\ messages' = IF m.chatId = chatIdRef
                 THEN MapId(messages, m.id,
                            [x \in Entries(messages) |-> [m EXCEPT !.content = "edited"]])
                 ELSE messages
  /\ UNCHANGED <<chatId, chatIdRef, loading, error, hasMore, oldestMessageId,
                 socketVars, loadDeps, opVars, envVars, countVars>>

\* socket.on('messageDeleted')
MessageDeleted(id) ==
  /\ socketRef.st = "connected" /\ id \in { m.id : m \in Pushable \ serverLog }
  /\ messages' = IF chatIdRef # NoChat THEN SelectMsgs(messages, id) ELSE messages
  /\ UNCHANGED <<chatId, chatIdRef, loading, error, hasMore, oldestMessageId,
                 socketVars, loadDeps, opVars, envVars, countVars>>

\* socket.on('userTyping'): userId types in conversation c
UserTyping(c, userId) ==
  /\ socketRef.st = "connected"
  /\ isTyping' = IF userId # Me /\ chatIdRef # NoChat THEN TRUE ELSE isTyping
  /\ UNCHANGED <<chatId, chatIdRef, listVars, socketVars, loadDeps, opVars,
                 now, isDevelopment, typingVars, emitted,
                 isLoadingMore, connectedUsers, countVars>>

\* socket.on('userStoppedTyping')
UserStoppedTyping(c, userId) ==
  /\ socketRef.st = "connected"
  /\ isTyping' = IF userId # Me /\ chatIdRef # NoChat THEN FALSE ELSE isTyping
  /\ UNCHANGED <<chatId, chatIdRef, listVars, socketVars, loadDeps, opVars,
                 now, isDevelopment, typingVars, emitted,
                 isLoadingMore, connectedUsers, countVars>>

\* socket.on('usersInChat'): the users present in conversation c
UsersInChat(c, users) ==
  /\ socketRef.st = "connected"
  /\ connectedUsers' = users
  /\ UNCHANGED <<chatId, chatIdRef, listVars, socketVars, loadDeps, opVars,
                 now, isDevelopment, typingVars, emitted,
                 isLoadingMore, isTyping, countVars>>

\* Date.now() advances, up to maxClock
TickWithin(maxClock) ==
  /\ now < maxClock /\ now' = now + 1
  /\ UNCHANGED <<chatId, chatIdRef, listVars, socketVars, loadDeps, opVars,
                 isDevelopment, typingVars, emitted,
                 isLoadingMore, presenceVars, countVars>>

Tick == TickWithin(MaxClock)

\* ------------------------------------------------------------ specification
\* The hook with its effects, operations, requests and session, and the
\* transport event that adds a message; the events that edit or remove a
\* message or report typing and presence are part of NextEvents.
Next ==
  \/ RunEffects
  \/ \E c \in Chats \cup {NoChat} : SelectChat(c)
  \/ SocketConnect
  \/ SocketDrop
  \/ FallbackFire
  \/ LoadMessages(TRUE)
  \/ HandleScroll
  \/ ScrollRestore
  \/ \E l \in BagToSet(loads) : LoadOk(l)
  \/ \E l \in BagToSet(loads) : LoadMock(l)
  \/ SendMessage
  \/ \E op \in sends : \E ts \in now..(now + Skew) : ServerAcceptSend(op, ts)
  \/ \E op \in sends : SendOk(op)
  \/ \E op \in sends : SendFail(op)
  \/ \E t \in timers : ResponseTimer(t)
  \/ \E id \in Ids(messages) : RetryMessage(id)
  \/ \E op \in retries : \E ts \in now..(now + Skew) : ServerAcceptRetry(op, ts)
  \/ \E op \in retries : RetryOk(op)
  \/ \E op \in retries : RetryFail(op)
  \/ \E id \in Ids(messages) : DeleteMessage(id)
  \/ \E op \in deletes : \E ok \in BOOLEAN : DeleteDone(op, ok)
  \/ \E m \in Pushable : NewMessage(m)
  \/ Tick

Spec == Init /\ [][Next]_vars

\* ------------------------------------------------- the merges on their own
\* The two merge paths of the list applied to pages and events drawn from
\* what a server may hold of conversation A over time: MaxStored messages,
\* two to a timestamp.
MaxStored == 4

Stored ==
  { Msg(Id("hA", i, 0), "A", "x", (i + 1) \div 2, "none", Peer, 0) : i \in 1..MaxStored }

\* the pages a GET may answer with: at most limit stored messages, in any order
Pages ==
  { <<>> } \cup { <<m>> : m \in Stored }
  \cup { p \in { <<m1, m2>> : m1 \in Stored, m2 \in Stored } : p[1] # p[2] }

\* a response of loadMessages(reset) is stored (lines 342-377)
StoreResponse(reset, page) ==
  /\ Len(page) <= limit
  /\ StorePage([chat |-> "A", reset |-> reset, before |-> Null], page)
  /\ UNCHANGED mocks

\* a newMessage event is applied (lines 151-175)
ApplyNewMessage(m) ==
  /\ messages' = OnNewMessage(messages, m)
  /\ emitted' = emitted \cup ReadReceipts(m)
  /\ UNCHANGED <<chatId, chatIdRef, loading, error, hasMore, oldestMessageId,
                 socketVars, loadDeps, opVars, now, isDevelopment,
                 isLoadingMore, presenceVars, typingVars, countVars>>

NextMerge ==
  \/ \E reset \in BOOLEAN : \E page \in Pages : StoreResponse(reset, page)
  \/ \E m \in Stored : ApplyNewMessage(m)

SpecMerge == Init /\ [][NextMerge]_vars

\* ------------------------------------------- the transport events alone
\* The session of the active conversation and the six events it delivers,
\* each of them about conversation A or B, over a list filled by the loads
\* of the load effect.
Presence == { {Peer}, {Peer, Me} }

NextEvents ==
  \/ RunEffects
  \/ \E c \in Chats \cup {NoChat} : SelectChat(c)
  \/ SocketConnect
  \/ SocketDrop
  \/ FallbackFire
  \/ \E l \in BagToSet(loads) : LoadOk(l)
  \/ \E m \in Pushable : NewMessage(m)
  \/ \E m \in Pushable \ serverLog : MessageUpdated(m)
  \/ \E m \in Pushable \ serverLog : MessageDeleted(m.id)
  \/ \E c \in Chats : \E u \in {Me, Peer} : UserTyping(c, u)
  \/ \E c \in Chats : \E u \in {Me, Peer} : UserStoppedTyping(c, u)
  \/ \E c \in Chats : \E users \in Presence : UsersInChat(c, users)

SpecEvents == Init /\ [][NextEvents]_vars

\* -------------------------------------------------- the send pipeline alone
\* sendMessage and retryMessage with their requests and the session, with no
\* history response: PipelineSends sends among PipelineCalls calls.
PipelineSends == 2
PipelineCalls == 3

NextPipeline ==
  \/ RunEffects
  \/ SocketConnect
  \/ SocketDrop
  \/ FallbackFire
  \/ SendMessageWithin(PipelineSends, PipelineCalls)
  \/ \E op \in sends : \E ts \in now..(now + Skew) : ServerAcceptSend(op, ts)
  \/ \E op \in sends : SendOk(op)
  \/ \E op \in sends : SendFail(op)
  \/ \E t \in timers : ResponseTimer(t)
  \/ \E id \in Ids(messages) : RetryMessageWithin(id, PipelineCalls)
  \/ \E op \in retries : \E ts \in now..(now + Skew) : ServerAcceptRetry(op, ts)
  \/ \E op \in retries : RetryOk(op)
  \/ \E op \in retries : RetryFail(op)
  \/ Tick

\* What the hook schedules by itself runs: the effects after a render and
\* its timers.  A fetch may never settle (lines 439-446 and 555-562 await it
\* with no timeout), so the responses get no fairness.
PipelineFairness ==
  /\ WF_vars(RunEffects)
  /\ WF_vars(FallbackFire)
  /\ WF_vars(\E t \in timers : ResponseTimer(t))

SpecPipeline == Init /\ [][NextPipeline]_vars /\ PipelineFairness

\* ------------------------------------------- the transport never connects
\* The hook with a session that stays connecting: no connect, disconnect or
\* transport event; history loads and sends through fetch alone.
NextOffline ==
  \/ RunEffects
  \/ FallbackFire
  \/ LoadMessages(TRUE)
  \/ HandleScroll
  \/ ScrollRestore
  \/ \E l \in BagToSet(loads) : LoadOk(l)
  \/ SendMessage
  \/ \E op \in sends : \E ts \in now..(now + Skew) : ServerAcceptSend(op, ts)
  \/ \E op \in sends : SendOk(op)
  \/ \E op \in sends : SendFail(op)
  \/ \E t \in timers : ResponseTimer(t)
  \/ Tick

SpecOffline == Init /\ [][NextOffline]_vars

\* ------------------------------------------------------- typing status
\* sendTypingStatus and its stop-typing timer, with the session, the
\* conversation changes and the history loads: TypingCalls calls of the user
\* interface, a clock of TypingClock readings and the 3000 ms of the timer as
\* TypingQuiet readings.
TypingCalls == 3
TypingClock == 4
TypingQuiet == 2

\* sendTypingStatus without lines 752-754
KeepPrevious(ts) == ts

\* lines 752-754: the timer of the call before is cleared
ClearPrevious(ts) == IF typingTimeoutRef # 0 THEN ClearTypingTimeout(ts) ELSE ts

\* lines 757-761: setTimeout(callback, 3000); the callback closes over chatId
\* and socketConnected of the render of the call
StopTimer(id) ==
  [id |-> id, chatId |-> chatId, socketConnected |-> socketConnected,
   set |-> now]

\* sendTypingStatus, called by the message input on a change of its text
SendTypingStatus ==
  /\ Mounted /\ calls < TypingCalls /\ now + TypingQuiet <= TypingClock
  /\ emitted' = IF SocketUsable
                THEN emitted \cup {Command("typing", chatId, <<>>)}
                ELSE emitted
  /\ typingTimers' =
       ClearPrevious(typingTimers) \cup {StopTimer(typingTimeoutRef + 1)}
  /\ typingTimeoutRef' = typingTimeoutRef + 1
  /\ calls' = calls + 1
  /\ UNCHANGED <<chatId, chatIdRef, listVars, socketVars, loadDeps, opVars,
                 now, isDevelopment, isLoadingMore, presenceVars, sent, mocks>>

\* the callback of the stop-typing timer t, 3000 ms after it was set
StopTyping(t) ==
  /\ ~EffectsDue /\ t \in typingTimers /\ now >= t.set + TypingQuiet
  /\ typingTimers' = typingTimers \ {t}
  /\ emitted' = IF socketRef # NoSocket /\ t.socketConnected
                THEN emitted \cup {Command("stopTyping", t.chatId, <<>>)}
                ELSE emitted
  /\ UNCHANGED <<chatId, chatIdRef, listVars, socketVars, loadDeps, opVars,
                 now, isDevelopment, isLoadingMore, presenceVars,
                 typingTimeoutRef, countVars>>

NextTyping ==
  \/ RunEffects
  \/ \E c \in Chats : SelectChat(c)
  \/ SocketConnect
  \/ SocketDrop
  \/ FallbackFire
  \/ HandleScroll
  \/ ScrollRestore
  \/ \E l \in BagToSet(loads) : LoadOk(l)
  \/ SendTypingStatus
  \/ \E t \in typingTimers : StopTyping(t)
  \/ TickWithin(TypingClock)

SpecTyping == Init /\ [][NextTyping]_vars

\* ------------------------------------------------------------------ claims
NoDup(s) == \A i, j \in DOMAIN s : s[i].id = s[j].id => i = j

Sorted(s) == \A i \in DOMAIN s : \A j \in DOMAIN s :
               i < j => s[i].timestamp <= s[j].timestamp

Count(s, id) == Cardinality({ i \in DOMAIN s : s[i].id = id })

\* the entries of the list that stand for the message of send n
EntriesOf(s, n) == { i \in DOMAIN s : s[i].origin = n }

\* every pair of entries of old is in new, in the same order
KeepsOrder(old, new) ==
  \A i, j \in DOMAIN old : i < j =>
    \E p, q \in DOMAIN new :
      p < q /\ new[p].id = old[i].id /\ new[q].id = old[j].id

\* the ids deleteMessage was called on
DeletedIds == { op.id : op \in deletes } \cup { r.id : r \in returned }

\* a loadMessages(true) response is stored in this step
ReseedStep == \E l \in BagToSet(loads) : l.reset /\ (LoadOk(l) \/ LoadMock(l))

\* a loadMoreMessages response is merged in this step
MergeStep == \E l \in BagToSet(loads) : ~l.reset /\ (LoadOk(l) \/ LoadMock(l))

\* C1: no two entries of the list have the same id, whatever the interleaving
\* of sends, confirmations, transport events, loads, retries and deletes.
C1_UniqueIds == NoDup(messages)

\* C2: the list is in non-decreasing timestamp order after every mutation.
C2_SortedByTimestamp == Sorted(messages)

\* C3: when a sendMessage issued with the transport connected has its POST
\* succeed, the completed send leaves exactly one entry for the message, with
\* the server's id and status sent; no entry keeps the provisional id and
\* none is left sending (unless deleteMessage was called on the message).
C3_SendLeavesOneEntry ==
  [][ \A op \in sends :
        (/\ op.live /\ op.sentViaSocket /\ SendOk(op)
         /\ {op.id, op.serverMessage.id} \cap DeletedIds = {}) =>
          LET own == EntriesOf(messages', op.n)
          IN  /\ Cardinality(own) = 1
              /\ \A i \in own : /\ messages'[i].id = op.serverMessage.id
                                /\ messages'[i].status = "sent"
              /\ op.id \notin Ids(messages') ]_vars

\* C4: outside development, a sendMessage with the transport not connected
\* and a failing POST leaves exactly one entry for the message, with status
\* failed; retryMessage sets that entry to sending and its completion to sent
\* or failed, and neither adds an entry (unless deleteMessage was called on
\* the message).
C4_FailedThenRetried ==
  [][ ~isDevelopment =>
        /\ \A op \in sends :
             (/\ ~op.live /\ ~op.sentViaSocket /\ SendFail(op)
              /\ op.id \notin DeletedIds) =>
               LET own == EntriesOf(messages', op.n)
               IN  /\ Cardinality(own) = 1
                   /\ \A i \in own : messages'[i].status = "failed"
        /\ \A id \in Ids(messages) :
             RetryMessage(id) =>
               /\ Len(messages') = Len(messages)
               /\ \A i \in DOMAIN messages' :
                    messages'[i].id = id => messages'[i].status = "sending"
        /\ \A op \in retries :
             (RetryOk(op) \/ RetryFail(op)) =>
               /\ Len(messages') = Len(messages)
               /\ \A i \in DOMAIN messages' :
                    messages'[i].id = op.id =>
                      messages'[i].status \in {"sent", "failed"} ]_vars

\* C5: after any sequence of merges (pages and newMessage events) with
\* overlapping ids the list holds each id once and is sorted, and merging a
\* message the list already holds leaves the list as it is.
C5_MergeIdempotent ==
  /\ NoDup(messages)
  /\ Sorted(messages)
  /\ \A m \in Stored :
       m.id \in Ids(messages) =>
         /\ OnNewMessage(messages, m) = messages
         /\ MergePage(<<m>>, messages) = messages

\* C6: once a provisional entry was replaced by its confirmed server message,
\* merging that server message again (a newMessage event or a page) leaves
\* exactly one entry with the server id and the length of the list as it was.
C6_MergeAfterConfirm ==
  \A m \in serverLog :
    (\E i \in DOMAIN messages : messages[i].id = m.id /\ messages[i].status = "sent") =>
      /\ Count(OnNewMessage(messages, m), m.id) = 1
      /\ Len(OnNewMessage(messages, m)) = Len(messages)
      /\ Count(MergePage(<<m>>, messages), m.id) = 1
      /\ Len(MergePage(<<m>>, messages)) = Len(messages)

\* C7: at most one pagination request of a conversation is in flight: a
\* loadMoreMessages made while another is unresolved issues no fetch.
C7_SingleFlight ==
  \A c \in Chats :
    LET inFlight == { l \in BagToSet(loads) : l.chat = c /\ ~l.reset }
    IN  /\ Cardinality(inFlight) <= 1
        /\ \A l \in inFlight : CopiesIn(l, loads) = 1

\* C8: the merge of a loadMoreMessages page keeps every message the list
\* held, under its id, and keeps the relative order of any two of them.
C8_MergeKeepsOrder ==
  [][ MergeStep =>
        /\ Ids(messages) \subseteq Ids(messages')
        /\ KeepsOrder(messages, messages') ]_vars

\* a message with this id is put into the list in this step
StoresId(id) ==
  \/ ReseedStep
  \/ MergeStep
  \/ \E m \in Pushable : m.id = id /\ NewMessage(m)
  \/ \E op \in sends : op.serverMessage.id = id /\ SendOk(op)
  \/ id = Id("m", now, 0) /\ SendMessage
  \/ id = Id("response", now, 0) /\ \E t \in timers : ResponseTimer(t)

C10_LateCompletion ==
  [][ chatId # NoChat =>
        /\ \A l \in BagToSet(loads) :
             (l.chat # chatId /\ (LoadOk(l) \/ LoadMock(l))) =>
               UNCHANGED <<messages, oldestMessageId, hasMore>>
        /\ \A op \in sends :
             (op.chat # chatId /\ (SendOk(op) \/ SendFail(op))) =>
               UNCHANGED <<messages, oldestMessageId, hasMore>>
        /\ \A op \in retries :
             (op.chat # chatId /\ (RetryOk(op) \/ RetryFail(op))) =>
               UNCHANGED <<messages, oldestMessageId, hasMore>>
        /\ \A t \in timers :
             (t.chat # chatId /\ ResponseTimer(t)) =>
               UNCHANGED <<messages, oldestMessageId, hasMore>> ]_vars

\* a transport event that belongs to conversation c is handled
EventOf(c) ==
  \/ \E m \in Pushable : m.chatId = c /\ NewMessage(m)
  \/ \E m \in Pushable \ serverLog : m.chatId = c /\ MessageUpdated(m)
  \/ \E m \in Pushable \ serverLog : m.chatId = c /\ MessageDeleted(m.id)
  \/ \E u \in {Me, Peer} : UserTyping(c, u) \/ UserStoppedTyping(c, u)
  \/ \E users \in Presence : UsersInChat(c, users)

\* C11: a transport event (newMessage, messageUpdated, messageDeleted,
\* userTyping, userStoppedTyping, usersInChat) that belongs to another
\* conversation than the attached one changes neither the message list nor
\* isTyping nor the connected users.
C11_ForeignEventDiscarded ==
  [][ \A c \in Chats :
        (c # socketRef.chat /\ EventOf(c))
          => UNCHANGED <<messages, isTyping, connectedUsers>> ]_vars

\* the list holds an entry of send n in status sending
Sending(n) ==
  \E i \in DOMAIN messages :
    messages[i].origin = n /\ messages[i].status = "sending"

\* C12: every message put into sending by sendMessage or retryMessage
\* eventually leaves sending (to sent or failed), even when the POST never
\* returns.
C12_LeavesSending ==
  \A n \in 1..PipelineSends : Sending(n) ~> ~Sending(n)

\* C13: outside development, when the POST of sendMessage fails, the entry
\* ends sent under its provisional id if the transport was connected when
\* the send was issued, and failed if it was not.
C13_FailureFollowsTransport ==
  [][ \A op \in sends :
        (~isDevelopment /\ SendFail(op))
          => \A i \in DOMAIN messages' :
               messages'[i].id = op.id
                 => messages'[i].status = IF op.live THEN "sent" ELSE "failed" ]_vars

\* the ids retryMessage may be called with: those of the list and one that
\* no entry carries
RetryIds == Ids(messages) \cup {Id("none", 0, 0)}

\* C14: retryMessage(id) acts only on an entry whose status is failed (an
\* absent id, or an entry sending or sent, starts nothing and leaves the list
\* as it is); when it runs, its request carries the content of that entry
\* and the entry stays in the list under the same id.
C14_RetryOnlyFailed ==
  [][ \A id \in RetryIds :
        RetryMessageWithin(id, PipelineCalls)
          => /\ \E i \in DOMAIN messages :
                  /\ messages[i].id = id /\ messages[i].status = "failed"
                  /\ \E op \in retries' \ retries :
                       op.id = id /\ op.content = messages[i].content
             /\ Len(messages') = Len(messages)
             /\ \A i \in DOMAIN messages :
                  /\ messages'[i].id = messages[i].id
                  /\ messages'[i].content = messages[i].content ]_vars

\* a retry of a failed entry is awaiting its POST
C14_Witness ==
  \E op \in retries : \E i \in DOMAIN messages :
    /\ messages[i].id = op.id /\ messages[i].status = "sending"
    /\ messages[i].content = op.content

\* C15: when the transport never connects, loadMessages and
\* loadMoreMessages still fill the list from their responses, and a
\* sendMessage whose POST succeeds ends as exactly one entry with the server
\* id and status sent, with nothing emitted on the transport.
C15_UsableOffline ==
  [][ /\ \A l \in BagToSet(loads) :
           LoadOk(l) => { m.id : m \in Page(l) } \subseteq Ids(messages')
      /\ \A op \in sends :
           SendOk(op) =>
             LET own == EntriesOf(messages', op.n)
             IN  /\ ~op.sentViaSocket
                 /\ Cardinality(own) = 1
                 /\ \A i \in own : /\ messages'[i].id = op.serverMessage.id
                                   /\ messages'[i].status = "sent" ]_vars

\* a loadMessages(true) request is issued in this step
ReseedRequested ==
  \E l \in BagToSet(loads') : l.reset /\ CopiesIn(l, loads') > CopiesIn(l, loads)

\* C16: a wholesale reseed is requested only when a conversation becomes
\* active or loadMessages(true) is called explicitly; a successful
\* loadMoreMessages causes none, so the merged older messages and the cursor
\* stay until then.
C16_ReseedOnlyOnDemand ==
  [][ ReseedRequested => (loadDeps[1] # chatId \/ LoadMessages(TRUE)) ]_vars

\* C17: a connected session leaves connected only by a disconnect or error
\* of the transport, a change of the active conversation or the unmount: the
\* hook does not close and reopen the session of a conversation that stays
\* active.
C17_StaysConnected ==
  [][ (socketRef.st = "connected" /\ socketRef'.st # "connected")
        => (socketDeps[1] # chatId \/ (~EffectsDue /\ SocketDrop)) ]_vars

\* C18: at most one transport session is open: initializeSocket opens none
\* while socketRef holds one, the connect effect closes the session it
\* replaces, and disconnectSocket without a session changes nothing.
C18_OneSession ==
  /\ sessions <= 1
  /\ sessions = IF socketRef = NoSocket THEN 0 ELSE 1
  /\ InitializeSocket(SessionState).open <= 1
  /\ socketRef = NoSocket => DisconnectSocket(SessionState) = SessionState

\* the connect effect ran again for a conversation that already had a
\* session, and one session is open
C18_Witness ==
  /\ sessions = 1 /\ socketRef.chat = "B" /\ socketDeps = <<"B", TRUE>>

\* the status changes of an outbound entry the pipeline may make
StatusMoves ==
  { <<"sending", "sent">>, <<"sending", "failed">>, <<"failed", "sending">> }

\* C19: the status of an outbound entry changes only from sending to sent,
\* from sending to failed and from failed to sending: never from sent to
\* failed or back to sending, a second retryMessage of the same id included.
C19_StatusMoves ==
  [][ \A i \in DOMAIN messages :
        \/ messages'[i].status = messages[i].status
        \/ <<messages[i].status, messages'[i].status>> \in StatusMoves ]_vars

\* C20: provisional ids are unique: no two unconfirmed entries (sending or
\* failed) carry the same id, so a confirmation or failure reaches the entry
\* of its own send alone.
C20_UniqueProvisionalIds ==
  \A i, j \in DOMAIN messages :
    (/\ i # j
     /\ messages[i].status \in {"sending", "failed"}
     /\ messages[j].status \in {"sending", "failed"})
      => messages[i].id # messages[j].id

\* a transport event or a fetch result of conversation c is merged or stored
MergeFor(c) ==
  \/ \E m \in Pushable : m.chatId = c /\ NewMessage(m)
  \/ \E l \in BagToSet(loads) : l.chat = c /\ (LoadOk(l) \/ LoadMock(l))

\* C21: while a conversation is active the list holds no message of another
\* one: the messages of the conversation before are discarded before an
\* event or a fetch result of the active conversation is merged, so such a
\* merge never leaves a list with messages of both.
C21_NoMixedList ==
  [][ (chatId # NoChat /\ chatIdRef = chatId /\ MergeFor(chatId))
        => \A i \in DOMAIN messages' : messages'[i].chatId = chatId ]_vars

\* C22: when the history request of loadMessages or loadMoreMessages fails,
\* the hook sets its error state and leaves the list as it was: no message
\* the server did not return is put into the list.
C22_FailedLoadKeepsList ==
  [][ \A l \in BagToSet(loads) :
        LoadMock(l) => (error' # "null" /\ messages' = messages) ]_vars

\* the entry of the list s under the id of m is m
Holds(s, m) == \E i \in DOMAIN s : s[i] = m

\* C23: when a merge brings a message whose id is in the list with another
\* content, the incoming version replaces the stored one, in the merge of a
\* loadMoreMessages page and in the newMessage handler alike.
C23_LastWriteWins ==
  \A m \in Pushable :
    (\E i \in DOMAIN messages :
       messages[i].id = m.id /\ messages[i].content # m.content) =>
      /\ Holds(OnNewMessage(messages, m), m)
      /\ Holds(MergePage(<<m>>, messages), m)

\* C24: a newMessage event of the conversation the session is attached to,
\* written by another user, makes the hook emit in that step the one command
\* markAsRead with the id of the message; an event written by the local user
\* or of another conversation makes it emit nothing.
C24_ReadReceiptPerEvent ==
  [][ \A m \in Pushable :
        NewMessage(m) =>
          emitted' = IF m.chatId = socketRef.chat /\ m.sender # Me
                     THEN emitted \cup {Command("markAsRead", m.chatId, <<m.id>>)}
                     ELSE emitted ]_vars

\* a receipt was emitted for the peer's message, and the list holds a message
\* of the local user that the server created and may push
C24_Witness ==
  /\ socketRef.st = "connected"
  /\ Command("markAsRead", "A", <<Id("hA", 2, 0)>>) \in emitted
  /\ \E m \in serverLog : m.sender = Me /\ m.chatId = chatIdRef

\* C25: at most one stop-typing timer is pending, the one of the last
\* sendTypingStatus call: a call clears the timer of the call before, so the
\* timer that emits stopTyping is the one of the last call and fires no
\* earlier than the quiet period after that call.
C25_OneStopTimer ==
  [][ /\ Cardinality(typingTimers') <= 1
      /\ \A t \in typingTimers :
           StopTyping(t) =>
             /\ t.id = typingTimeoutRef
             /\ now >= t.set + TypingQuiet
             /\ emitted' \subseteq
                  emitted \cup {Command("stopTyping", t.chatId, <<>>)} ]_vars

\* two calls in conversation A with no load completed, the second within the
\* quiet period of the first, and stopTyping emitted
C25_Witness ==
  /\ typingTimeoutRef = 2 /\ calls = 2 /\ chatId = "A"
  /\ oldestMessageId = Null /\ typingTimers = {}
  /\ now < 2 * TypingQuiet
  /\ Command("stopTyping", "A", <<>>) \in emitted

\* C26: a history response with a non-empty page leaves as cursor the id of
\* a message of the page with the least timestamp, and a loadMoreMessages
\* call requests the messages before the cursor.
C26_CursorIsOldestFetched ==
  [][ /\ \A l \in BagToSet(loads) :
           (LoadOk(l) /\ Page(l) # {}) =>
             \E m \in Page(l) :
               /\ oldestMessageId' = m.id
               /\ \A x \in Page(l) : m.timestamp <= x.timestamp
      /\ HandleScroll =>
           loads' = loads (+) SetToBag({[chat |-> chatId, reset |-> FALSE,
                                         before |-> oldestMessageId]}) ]_vars

\* a loadMoreMessages request in flight that asks for the messages before the
\* cursor left by the last response
C26_Witness ==
  \E l \in BagToSet(loads) :
    ~l.reset /\ l.before # Null /\ l.before = oldestMessageId

\* C27: a request of loadMessages(true) carries no cursor, and its response
\* replaces the list: the list is then the messages of the fetched page, each
\* once, in the order of their timestamps, whatever the list held before.
C27_ResetReplacesList ==
  [][ /\ \A l \in BagToSet(loads') : l.reset => l.before = Null
      /\ \A l \in BagToSet(loads) :
           (l.reset /\ LoadOk(l)) =>
             /\ Entries(messages') = Page(l)
             /\ Len(messages') = Cardinality(Page(l))
             /\ Sorted(messages') ]_vars

\* loadMessages(true) was called with the cursor set and a list that is not
\* the page the server will answer with
C27_Witness ==
  \E l \in BagToSet(loads) :
    /\ l.reset /\ l.chat = chatId /\ oldestMessageId # Null
    /\ messages # <<>> /\ Entries(messages) # Page(l)

\* C28: the socketConnected flag is true only while the session of the
\* transport is connected.
C28_FlagFollowsTransport ==
  socketConnected => socketRef.st = "connected"

\* C29: the stop-typing timer of a call that saw the transport connected
\* goes away only by firing, by a newer sendTypingStatus call or by the
\* effects of a conversation change; the completion of a history or
\* pagination load does not cancel it.
C29_StopTimerSurvivesLoads ==
  [][ \A t \in typingTimers :
        (t.socketConnected /\ t \notin typingTimers') =>
          \/ StopTyping(t)
          \/ typingTimeoutRef' # typingTimeoutRef
          \/ loadDeps[1] # chatId ]_vars

\* the message of id a is newer than the message of id b on the server
NewerCursor(a, b) ==
  \E x, y \in ServerHolds(chatId) :
    x.id = a /\ y.id = b /\ x.timestamp > y.timestamp

\* C30: a history response of the active conversation that finds the cursor
\* set leaves it set, and not on a newer message.
C30_CursorOnlyMovesBack ==
  [][ \A l \in BagToSet(loads) :
        (LoadOk(l) /\ l.chat = chatId /\ chatIdRef = chatId
           /\ oldestMessageId # Null) =>
          /\ oldestMessageId' # Null
          /\ ~NewerCursor(oldestMessageId', oldestMessageId) ]_vars

====
